---- MODULE Spec2Model ----
(***************************************************************************)
(* Go rule engine of alphaboy (go.h / go.c, kept in src/src/layout.h) and  *)
(* the part of main() that drives it.                                      *)
(*                                                                         *)
(* A bit-field (bitfield_t) is modelled as the set of bit positions that   *)
(* are set.  The game_t structure is modelled as a record with the fields  *)
(* of the C structure; the state variables are those fields one by one.    *)
(* The history array is modelled by the prefix that has been written.      *)
(***************************************************************************)
EXTENDS Integers, Sequences, FiniteSets, TLC

(* ---- go.h: program constants ---- *)
BOARD_MIN_SIZE == 5
BOARD_MAX_SIZE == 19
BOARD_MARGIN == 1
BOARD_MAX_EXTENT == BOARD_MAX_SIZE + (BOARD_MARGIN * 2)
BOARD_DATA_LEN == BOARD_MAX_EXTENT * BOARD_MAX_EXTENT
BOARD_FIELD_BYTES == (BOARD_DATA_LEN + 7) \div 8
BOARD_POSITIONS == BOARD_MAX_SIZE * BOARD_MAX_SIZE

BLACK == 0
WHITE == 1
Colors == {BLACK, WHITE}

MOVE_LEGAL == 0
MOVE_NON_EMPTY == 1
MOVE_SUICIDAL == 2
MOVE_KO == 3

COORD_PASS == 32767
MOVE_COLOR_BIT == 15
MOVE_COORD_MASK == 32767
HISTORY_MAX == 512

DIR_UP == 0 - BOARD_MAX_EXTENT
DIR_DOWN == BOARD_MAX_EXTENT
DIR_LEFT == 0 - 1
DIR_RIGHT == 1
dirs == <<DIR_UP, DIR_DOWN, DIR_LEFT, DIR_RIGHT>>

(* ---- layout.h / main.c: tiles and the BG map ---- *)
TILE_OFFSET == 1
TILE_STONE_W == 1 + TILE_OFFSET
TILE_STONE_B == 2 + TILE_OFFSET
TILE_CORNER_TL == 3 + TILE_OFFSET
TILE_EDGE_T == 4 + TILE_OFFSET
TILE_CORNER_TR == 5 + TILE_OFFSET
TILE_EDGE_L == 6 + TILE_OFFSET
TILE_CENTER == 7 + TILE_OFFSET
TILE_EDGE_R == 8 + TILE_OFFSET
TILE_CORNER_BL == 9 + TILE_OFFSET
TILE_EDGE_B == 10 + TILE_OFFSET
TILE_CORNER_BR == 11 + TILE_OFFSET
INPUT_REPEAT_DELAY == 20
INPUT_REPEAT_RATE == 6
CURSOR_MIN_STEP == 8
BkgMapWidth == 32

(* ---- bounds of the model ---- *)
(* Board dimensions passed to game_reset and the komi of main().          *)
BoardW == 5
BoardH == 5
Komi2 == 13
(* No call is explored that would commit a move beyond MaxMoves.          *)
MaxMoves == 5
(* Calls made by a caller that resets the game between moves.              *)
SnapbackMoves == 7
MaxCalls == 6
MaxPolls == 33
(* The cursor starts at most this many 8.8 units from its target.          *)
TrackReach == 8192

(* ---- fixed-width arithmetic ---- *)
U8(x) == x % 256
U16(x) == x % 65536

Pow2(n) == 2 ^ n

(* ---- go.h macros ---- *)
COLOR_OPPOSITE(c) == IF c % 2 = 0 THEN c + 1 ELSE c - 1

(* A record that keeps the coordinate only.                                *)
MOVE_MAKE_NoColor(coord, color) == U16(coord % Pow2(MOVE_COLOR_BIT))

(* coord | (color << 15), truncated to move_t (uint16_t). *)
MOVE_MAKE(coord, color) ==
    LET lo  == coord % Pow2(MOVE_COLOR_BIT)
        cb  == (coord \div Pow2(MOVE_COLOR_BIT)) % 2
        sb  == color % 2
        bit == IF cb = 1 \/ sb = 1 THEN 1 ELSE 0
    IN  U16(lo + bit * Pow2(MOVE_COLOR_BIT))

(* A decoding that leaves out the mask.                                     *)
MOVE_COORD_NoMask(m) == m

MOVE_COORD(m) == m % (MOVE_COORD_MASK + 1)
MOVE_COLOR(m) == m \div Pow2(MOVE_COLOR_BIT)

BF_GET(f, pos) == pos \in f
BF_SET(f, pos) == f \cup {pos}
BF_CLR(f, pos) == f \ {pos}

(* A grid indexed with a row stride of 128 (y << 7).                       *)
BOARD_POS_Stride128(x, y) == y * 128 + x

BOARD_POS(x, y) == y * BOARD_MAX_EXTENT + x

(* A coordinate taken on the grid without its margin.                      *)
BOARD_COORD_NoMargin(col, row) == BOARD_POS(col, row)

BOARD_COORD(col, row) == BOARD_POS(col + BOARD_MARGIN, row + BOARD_MARGIN)

(* ---- main.c: surface_tile, vram_set_tile ---- *)
surface_tile(col, row, w, h) ==
    LET top    == row = 0
        bottom == row = h - 1
        left   == col = 0
        right  == col = w - 1
    IN  IF top THEN (IF left THEN TILE_CORNER_TL
                     ELSE IF right THEN TILE_CORNER_TR ELSE TILE_EDGE_T)
        ELSE IF bottom THEN (IF left THEN TILE_CORNER_BL
                             ELSE IF right THEN TILE_CORNER_BR ELSE TILE_EDGE_B)
        ELSE IF left THEN TILE_EDGE_L
        ELSE IF right THEN TILE_EDGE_R
        ELSE TILE_CENTER

(* The BG map is a function from map offsets (y << 5) + x to tile numbers;  *)
(* only the offsets in its domain are tracked.                             *)
vram_set_tile(vr, x, y, tile) ==
    LET off == y * BkgMapWidth + x
    IN  IF off \in DOMAIN vr THEN [vr EXCEPT ![off] = tile] ELSE vr


(* ---- go.c: flood fill for liberty detection ---- *)

(* queue[idx] = val on the written prefix of a scratch array (idx counts   *)
(* from 0, as in C; writes are made at consecutive indices from 0).        *)
ArrayWrite(arr, idx, val) ==
    IF idx < Len(arr) THEN [arr EXCEPT ![idx + 1] = val] ELSE Append(arr, val)

(* A loop body whose liberty test forgets on_board: an empty margin cell   *)
(* counts as a liberty.                                                    *)
FloodNeighbor_NoBoardTest(g, stones, st, pos, d) ==
    LET nb == U16(pos + dirs[d])
    IN  IF BF_GET(st.visited, nb) THEN st
        ELSE IF BF_GET(stones, nb)
             THEN [visited     |-> BF_SET(st.visited, nb),
                   queue       |-> ArrayWrite(st.queue, st.tail, nb),
                   tail        |-> st.tail + 1,
                   has_liberty |-> st.has_liberty]
        ELSE IF ~st.has_liberty
                /\ ~BF_GET(g.black_stones, nb) /\ ~BF_GET(g.white_stones, nb)
             THEN [st EXCEPT !.has_liberty = TRUE]
        ELSE st

(* Body of the inner loop of flood_fill_captured for direction d.         *)
(* st = [visited, queue, tail, has_liberty].                              *)
FloodNeighbor(g, stones, st, pos, d) ==
    LET nb == U16(pos + dirs[d])
    IN  IF BF_GET(st.visited, nb) THEN st
        ELSE IF BF_GET(stones, nb)
             THEN [visited     |-> BF_SET(st.visited, nb),
                   queue       |-> ArrayWrite(st.queue, st.tail, nb),
                   tail        |-> st.tail + 1,
                   has_liberty |-> st.has_liberty]
        ELSE IF ~st.has_liberty /\ BF_GET(g.on_board, nb)
                /\ ~BF_GET(g.black_stones, nb) /\ ~BF_GET(g.white_stones, nb)
             THEN [st EXCEPT !.has_liberty = TRUE]
        ELSE st

(* A loop over the neighbours that follows every board point, not only    *)
(* the stones of the color.                                                *)
FloodVisit_AnyPoint(g, stones, st, pos) ==
    FloodNeighbor(g, g.on_board,
      FloodNeighbor(g, g.on_board,
        FloodNeighbor(g, g.on_board,
          FloodNeighbor(g, g.on_board, st, pos, 1), pos, 2), pos, 3), pos, 4)

(* for (d = 0; d < 4; d++) over the neighbours of pos. *)
FloodVisit(g, stones, st, pos) ==
    FloodNeighbor(g, stones,
      FloodNeighbor(g, stones,
        FloodNeighbor(g, stones,
          FloodNeighbor(g, stones, st, pos, 1), pos, 2), pos, 3), pos, 4)

(* A loop that ends as soon as a liberty has been found.                   *)
RECURSIVE FloodLoop_StopAtLiberty(_, _, _, _)
FloodLoop_StopAtLiberty(g, stones, st, head) ==
    IF head < st.tail /\ ~st.has_liberty
    THEN FloodLoop_StopAtLiberty(g, stones,
                                 FloodVisit(g, stones, st, st.queue[head + 1]),
                                 head + 1)
    ELSE st

(* while (head < tail) *)
RECURSIVE FloodLoop(_, _, _, _)
FloodLoop(g, stones, st, head) ==
    IF head < st.tail
    THEN FloodLoop(g, stones, FloodVisit(g, stones, st, st.queue[head + 1]), head + 1)
    ELSE st

(* What the call leaves behind once the loop has ended in st: the return   *)
(* value, *group_size and the two scratch buffers; seed_fresh records that *)
(* the seed was not marked in `visited` on entry.                          *)
FloodResult(st, visited, seed) ==
    [captured   |-> ~st.has_liberty,
     visited    |-> st.visited,
     queue      |-> st.queue,
     group_size |-> st.tail,
     seed_fresh |-> ~BF_GET(visited, seed)]

flood_fill_captured(g, seed, stones, visited, queue) ==
    FloodResult(FloodLoop(g, stones,
                          [visited     |-> BF_SET(visited, seed),
                           queue       |-> ArrayWrite(queue, 0, seed),
                           tail        |-> 1,
                           has_liberty |-> FALSE],
                          0),
                visited, seed)

(* ---- go.c: game_reset ---- *)
ResetOnBoard(width, height) ==
    { U16(BOARD_COORD(0, 0) + row * BOARD_MAX_EXTENT + col) :
        col \in 0 .. (width - 1), row \in 0 .. (height - 1) }

(* A reset that forgets the memset of white_stones.                        *)
game_reset_KeepWhite(g, width, height, k2) ==
    [g EXCEPT !.width = width, !.height = height, !.komi2 = k2,
              !.ko = COORD_PASS, !.move_count = 0,
              !.on_board = ResetOnBoard(width, height),
              !.black_stones = {}]

game_reset(g, width, height, k2) ==
    [g EXCEPT !.width = width, !.height = height, !.komi2 = k2,
              !.ko = COORD_PASS, !.move_count = 0,
              !.on_board = ResetOnBoard(width, height),
              !.black_stones = {}, !.white_stones = {}]

(* ---- go.c: remove_captured ---- *)
(* A write through the pointer of the other color.                         *)
SetStonesOf_OtherColor(g, oppc, f) ==
    IF oppc = BLACK THEN [g EXCEPT !.white_stones = f]
                    ELSE [g EXCEPT !.black_stones = f]

(* The bit-field of color c (what the pointers `own` and `opp` point to).   *)
StonesOf(g, oppc) == IF oppc = BLACK THEN g.black_stones ELSE g.white_stones
SetStonesOf(g, oppc, f) ==
    IF oppc = BLACK THEN [g EXCEPT !.black_stones = f]
                    ELSE [g EXCEPT !.white_stones = f]

(* A removal loop that clears the bits and writes no tile.                  *)
RECURSIVE RemoveLoop_NoTile(_, _, _, _, _)
RemoveLoop_NoTile(st, oppc, queue, group_size, i) ==
    IF i < group_size
    THEN RemoveLoop_NoTile(
           [g    |-> SetStonesOf(st.g, oppc,
                                 BF_CLR(StonesOf(st.g, oppc), queue[i + 1])),
            vram |-> st.vram],
           oppc, queue, group_size, i + 1)
    ELSE st

(* A row taken from the padded grid as it stands.                           *)
CapturedRow_NoMargin(pos) == U8(pos \div BOARD_MAX_EXTENT)

(* The row and col (uint8_t) that remove_captured hands to vram_set_tile.  *)
CapturedRow(pos) == U8((pos \div BOARD_MAX_EXTENT) - BOARD_MARGIN)
CapturedCol(pos) == U8((pos % BOARD_MAX_EXTENT) - BOARD_MARGIN)

(* st = [g, vram]; oppc is the color whose bit-field `opp` points to.      *)
RECURSIVE RemoveLoop(_, _, _, _, _)
RemoveLoop(st, oppc, queue, group_size, i) ==
    IF i < group_size
    THEN LET pos == queue[i + 1]
             row == CapturedRow(pos)
             col == CapturedCol(pos)
             g2  == SetStonesOf(st.g, oppc, BF_CLR(StonesOf(st.g, oppc), pos))
             v2  == vram_set_tile(st.vram, col, row,
                                  surface_tile(col, row, st.g.width, st.g.height))
         IN  RemoveLoop([g |-> g2, vram |-> v2], oppc, queue, group_size, i + 1)
    ELSE st

(* After the loop has ended in st: *captured_total += group_size and        *)
(* *captured_at = queue[0].                                                *)
RemoveResult(st, queue, group_size, captured_total) ==
    [g |-> st.g, vram |-> st.vram,
     captured_total |-> U16(captured_total + group_size),
     captured_at    |-> queue[1]]

(* A removal loop that starts at queue[1] and leaves the seed in place.     *)
remove_captured_SkipSeed(g, vr, oppc, queue, group_size, captured_total, captured_at) ==
    RemoveResult(RemoveLoop([g |-> g, vram |-> vr], oppc, queue, group_size, 1),
                 queue, group_size, captured_total)

remove_captured(g, vr, oppc, queue, group_size, captured_total, captured_at) ==
    RemoveResult(RemoveLoop([g |-> g, vram |-> vr], oppc, queue, group_size, 0),
                 queue, group_size, captured_total)

(* ---- go.c: game_play_move ---- *)
(* Body of the capture scan for direction d.                              *)
(* st = [g, vram, visited, queue, captured_total, captured_at, seeds_ok]. *)
(* The scan state after remove_captured has returned rc for the group     *)
(* that the flood fill ff found captured.                                  *)
ScanRemoved(st, ff, rc) ==
    [g              |-> rc.g,
     vram           |-> rc.vram,
     visited        |-> ff.visited,
     queue          |-> ff.queue,
     captured_total |-> rc.captured_total,
     captured_at    |-> rc.captured_at,
     seeds_ok       |-> st.seeds_ok /\ ff.seed_fresh]

(* if (flood_fill_captured(...)) remove_captured(...), ff being what the    *)
(* flood fill returned and left in the scratch buffers.                    *)
ScanFlooded(st, oppc, ff) ==
    IF ~ff.captured
    THEN [st EXCEPT !.visited = ff.visited, !.queue = ff.queue,
                    !.seeds_ok = @ /\ ff.seed_fresh]
    ELSE ScanRemoved(st, ff,
                     remove_captured(st.g, st.vram, oppc, ff.queue, ff.group_size,
                                     st.captured_total, st.captured_at))

(* A scan that floods from a neighbour an earlier direction has marked.    *)
ScanNeighbor_NoSkip(st, coord, oppc, d) ==
    LET nb == U16(coord + dirs[d])
    IN  IF ~BF_GET(StonesOf(st.g, oppc), nb) THEN st
        ELSE ScanFlooded(st, oppc,
                         flood_fill_captured(st.g, nb, StonesOf(st.g, oppc),
                                             st.visited, st.queue))

ScanNeighbor(st, coord, oppc, d) ==
    LET nb == U16(coord + dirs[d])
    IN  IF ~BF_GET(StonesOf(st.g, oppc), nb) THEN st
        ELSE IF BF_GET(st.visited, nb) THEN st
        ELSE ScanFlooded(st, oppc,
                         flood_fill_captured(st.g, nb, StonesOf(st.g, oppc),
                                             st.visited, st.queue))

CaptureScan(st, coord, oppc) ==
    ScanNeighbor(
      ScanNeighbor(
        ScanNeighbor(
          ScanNeighbor(st, coord, oppc, 1), coord, oppc, 2), coord, oppc, 3),
      coord, oppc, 4)

(* "Ko check."  (The variant compares with the last move played.)          *)
KoCheck_LastMove(g, coord) ==
    g.move_count > 0 /\ coord = MOVE_COORD(g.history[g.move_count])

KoCheck(g, coord) == coord = g.ko

(* "Must be an empty on-board intersection": the test that rejects.       *)
NotEmptyOnBoard_BlackOnly(g, coord) ==
    ~BF_GET(g.on_board, coord) \/ BF_GET(g.black_stones, coord)

(* A test that forgets on_board.                                           *)
NotEmptyOnBoard_NoBoardTest(g, coord) ==
    BF_GET(g.black_stones, coord) \/ BF_GET(g.white_stones, coord)

NotEmptyOnBoard(g, coord) ==
    ~BF_GET(g.on_board, coord) \/ BF_GET(g.black_stones, coord)
    \/ BF_GET(g.white_stones, coord)

(* "Ko: exactly one stone captured -> record its position."                *)
KoAfterScan_AnyCapture(captured_total, captured_at) ==
    IF captured_total >= 1 THEN captured_at ELSE COORD_PASS

(* A version that writes 0, not COORD_PASS, when there is no ko.            *)
KoAfterScan_ZeroForNone(captured_total, captured_at) ==
    IF captured_total = 1 THEN captured_at ELSE 0

KoAfterScan(captured_total, captured_at) ==
    IF captured_total = 1 THEN captured_at ELSE COORD_PASS

(* The outcome of one call: the new game_t, BG map and scratch buffers,    *)
(* and the returned move_legality_t.                                       *)
Outcome(g, vr, visited, queue, res, ok) ==
    [g |-> g, vram |-> vr, visited |-> visited, queue |-> queue,
     result |-> res, seeds_ok |-> ok]

(* memset(visited, 0, BOARD_FIELD_BYTES) before the capture scan.  (The     *)
(* variant leaves the caller's contents in place.)                         *)
ClearVisited_Skip(visited) == visited

ClearVisited(visited) == {}

(* An end of the call that writes the stone tile before the suicide check. *)
PlayFinish_DrawFirst(gko, sc, own, col, row, color, coord, ownc) ==
    IF sc.captured_total = 0 /\ own.captured
    THEN Outcome(SetStonesOf(gko, ownc, BF_CLR(StonesOf(gko, ownc), coord)),
                 vram_set_tile(sc.vram, col, row,
                               IF color = BLACK THEN TILE_STONE_B ELSE TILE_STONE_W),
                 own.visited, own.queue, MOVE_SUICIDAL,
                 sc.seeds_ok /\ own.seed_fresh)
    ELSE Outcome([gko EXCEPT !.history = ArrayWrite(@, gko.move_count,
                                                    MOVE_MAKE(coord, color)),
                             !.move_count = U16(@ + 1)],
                 vram_set_tile(sc.vram, col, row,
                               IF color = BLACK THEN TILE_STONE_B ELSE TILE_STONE_W),
                 own.visited, own.queue, MOVE_LEGAL,
                 sc.seeds_ok /\ own.seed_fresh)

(* An end of the call that leaves the placed stone where it is when it     *)
(* returns Suicidal.                                                       *)
PlayFinish_KeepStone(gko, sc, own, col, row, color, coord, ownc) ==
    IF sc.captured_total = 0 /\ own.captured
    THEN Outcome(gko, sc.vram, own.visited, own.queue, MOVE_SUICIDAL,
                 sc.seeds_ok /\ own.seed_fresh)
    ELSE Outcome([gko EXCEPT !.history = ArrayWrite(@, gko.move_count,
                                                    MOVE_MAKE(coord, color)),
                             !.move_count = U16(@ + 1)],
                 vram_set_tile(sc.vram, col, row,
                               IF color = BLACK THEN TILE_STONE_B ELSE TILE_STONE_W),
                 own.visited, own.queue, MOVE_LEGAL,
                 sc.seeds_ok /\ own.seed_fresh)

(* The end of the call: gko is *g after the ko update, sc the capture      *)
(* scan and own the flood fill of the placed stone's group.                *)
PlayFinish(gko, sc, own, col, row, color, coord, ownc) ==
    IF sc.captured_total = 0 /\ own.captured
    THEN Outcome(SetStonesOf(gko, ownc, BF_CLR(StonesOf(gko, ownc), coord)),
                 sc.vram, own.visited, own.queue, MOVE_SUICIDAL,
                 sc.seeds_ok /\ own.seed_fresh)
    ELSE Outcome([gko EXCEPT !.history = ArrayWrite(@, gko.move_count,
                                                    MOVE_MAKE(coord, color)),
                             !.move_count = U16(@ + 1)],
                 vram_set_tile(sc.vram, col, row,
                               IF color = BLACK THEN TILE_STONE_B ELSE TILE_STONE_W),
                 own.visited, own.queue, MOVE_LEGAL,
                 sc.seeds_ok /\ own.seed_fresh)

(* A suicide check that never finds the placed stone's group captured.     *)
OwnFlood_NeverCaptured(gko, sc, coord, ownc) ==
    [captured |-> FALSE, visited |-> sc.visited,
     queue |-> sc.queue, group_size |-> 0, seed_fresh |-> TRUE]

(* The flood fill of the placed stone's group, run only when the scan      *)
(* captured nothing (the && of the suicide check short-circuits).          *)
OwnFlood(gko, sc, coord, ownc) ==
    IF sc.captured_total = 0
    THEN flood_fill_captured(gko, coord, StonesOf(gko, ownc), sc.visited, sc.queue)
    ELSE [captured |-> FALSE, visited |-> sc.visited,
          queue |-> sc.queue, group_size |-> 0, seed_fresh |-> TRUE]

(* g->ko = ... on the game the capture scan sc left.                       *)
KoUpdate(sc) ==
    [sc.g EXCEPT !.ko = KoAfterScan(sc.captured_total, sc.captured_at)]

(* The call from the ko update on, sc being the capture scan's result.     *)
PlayScanned(sc, col, row, color, coord, ownc) ==
    PlayFinish(KoUpdate(sc), sc, OwnFlood(KoUpdate(sc), sc, coord, ownc),
               col, row, color, coord, ownc)

(* The capture scan's state when its loop starts: BF_SET(own, coord) and   *)
(* the memset of visited are done, nothing is captured yet.                *)
ScanBegin(g, vr, visited, queue, coord, ownc) ==
    [g |-> SetStonesOf(g, ownc, BF_SET(StonesOf(g, ownc), coord)),
     vram |-> vr, visited |-> ClearVisited(visited), queue |-> queue,
     captured_total |-> 0, captured_at |-> COORD_PASS, seeds_ok |-> TRUE]

(* The scan state when the loop reaches direction d.                       *)
ScanBefore(st, coord, oppc, d) ==
    IF d = 1 THEN st
    ELSE IF d = 2 THEN ScanNeighbor(st, coord, oppc, 1)
    ELSE IF d = 3 THEN ScanNeighbor(ScanNeighbor(st, coord, oppc, 1), coord, oppc, 2)
    ELSE ScanNeighbor(
           ScanNeighbor(ScanNeighbor(st, coord, oppc, 1), coord, oppc, 2),
           coord, oppc, 3)

(* The arguments of the flood_fill_captured call the scan makes for the    *)
(* neighbour nb in state st, if it makes one.                              *)
ScanFloodCall(st, oppc, nb) ==
    IF BF_GET(StonesOf(st.g, oppc), nb) /\ ~BF_GET(st.visited, nb)
    THEN { [g |-> st.g, seed |-> nb, stones |-> StonesOf(st.g, oppc),
            visited |-> st.visited, queue |-> st.queue] }
    ELSE {}

(* The arguments of the suicide check's call, if it is made.               *)
OwnFloodCall(gko, sc, coord, ownc) ==
    IF sc.captured_total = 0
    THEN { [g |-> gko, seed |-> coord, stones |-> StonesOf(gko, ownc),
            visited |-> sc.visited, queue |-> sc.queue] }
    ELSE {}

(* The flood_fill_captured calls of a call that gets past its checks, st   *)
(* being the scan's first state.                                           *)
ScanFloodCalls(st, coord, ownc, oppc) ==
    UNION { ScanFloodCall(ScanBefore(st, coord, oppc, d), oppc,
                          U16(coord + dirs[d])) : d \in 1 .. 4 }
    \cup OwnFloodCall(KoUpdate(CaptureScan(st, coord, oppc)),
                      CaptureScan(st, coord, oppc), coord, ownc)

(* Every flood_fill_captured call game_play_move makes, with its arguments. *)
FloodCalls(g, vr, col, row, color, queue, visited) ==
    LET coord == U16(BOARD_COORD(col, row))
    IN  IF coord = COORD_PASS \/ KoCheck(g, coord) \/ NotEmptyOnBoard(g, coord)
        THEN {}
        ELSE ScanFloodCalls(ScanBegin(g, vr, visited, queue, coord,
                                      IF color = BLACK THEN BLACK ELSE WHITE),
                            coord,
                            IF color = BLACK THEN BLACK ELSE WHITE,
                            IF color = BLACK THEN WHITE ELSE BLACK)

game_play_move(g, vr, col, row, color, queue, visited) ==
    LET coord == U16(BOARD_COORD(col, row))
        ownc  == IF color = BLACK THEN BLACK ELSE WHITE
        oppc  == IF color = BLACK THEN WHITE ELSE BLACK
    IN
    IF coord = COORD_PASS
    THEN Outcome([g EXCEPT !.ko = COORD_PASS,
                           !.history = ArrayWrite(@, g.move_count,
                                                  MOVE_MAKE(COORD_PASS, color)),
                           !.move_count = U16(@ + 1)],
                 vr, visited, queue, MOVE_LEGAL, TRUE)
    ELSE IF KoCheck(g, coord)
    THEN Outcome(g, vr, visited, queue, MOVE_KO, TRUE)
    ELSE IF NotEmptyOnBoard(g, coord)
    THEN Outcome(g, vr, visited, queue, MOVE_NON_EMPTY, TRUE)
    ELSE PlayScanned(
           CaptureScan(ScanBegin(g, vr, visited, queue, coord, ownc), coord, oppc),
           col, row, color, coord, ownc)

(* A version that returns the color of the last move, not its opposite.   *)
game_color_to_play_LastMover(g) ==
    IF g.move_count = 0 THEN BLACK
    ELSE MOVE_COLOR(g.history[(g.move_count - 1) + 1])

game_color_to_play(g) ==
    IF g.move_count = 0 THEN BLACK
    ELSE COLOR_OPPOSITE(MOVE_COLOR(g.history[(g.move_count - 1) + 1]))

(* A version that forgets the ko point.                                    *)
game_can_play_approx_NoKo(g, col, row) ==
    LET coord == U16(BOARD_COORD(col, row))
    IN  IF BF_GET(g.black_stones, coord) \/ BF_GET(g.white_stones, coord) THEN 0
        ELSE 1

(* A version that forgets the white stones.                                *)
game_can_play_approx_BlackOnly(g, col, row) ==
    LET coord == U16(BOARD_COORD(col, row))
    IN  IF coord = g.ko THEN 0
        ELSE IF BF_GET(g.black_stones, coord) THEN 0
        ELSE 1

game_can_play_approx(g, col, row) ==
    LET coord == U16(BOARD_COORD(col, row))
    IN  IF coord = g.ko THEN 0
        ELSE IF BF_GET(g.black_stones, coord) \/ BF_GET(g.white_stones, coord) THEN 0
        ELSE 1

(* ---- main.c: board_redraw ---- *)
RECURSIVE RedrawLoop(_, _, _)
RedrawLoop(g, vr, n) ==
    IF n < g.width * g.height
    THEN LET row  == n \div g.width
             col  == n % g.width
             p    == U16(BOARD_COORD(0, 0) + row * BOARD_MAX_EXTENT + col)
             tile == IF BF_GET(g.black_stones, p) THEN TILE_STONE_B
                     ELSE IF BF_GET(g.white_stones, p) THEN TILE_STONE_W
                     ELSE surface_tile(col, row, g.width, g.height)
         IN  RedrawLoop(g, vram_set_tile(vr, col, row, tile), n + 1)
    ELSE vr

board_redraw(g, vr) == RedrawLoop(g, vr, 0)


(* ---- input.c: input_poll ---- *)
(* A uint8_t of joypad buttons is the set of the J_ bits set in it.        *)
J_A == "J_A"
J_LEFT == "J_LEFT"
J_RIGHT == "J_RIGHT"
J_UP == "J_UP"
J_DOWN == "J_DOWN"
DPAD_MASK == {J_LEFT, J_RIGHT, J_UP, J_DOWN}

(* memset(game_input, 0, sizeof(input_t)) *)
ZeroInput == [current |-> {}, pressed |-> {}, repeated |-> {}, repeat_timer |-> 0]

(* A repeat that starts the whole delay again after it fires.               *)
RepeatState_RestartDelay(timer_up, held, prev_held) ==
    IF held # prev_held THEN [repeated |-> {}, repeat_timer |-> 0]
    ELSE IF held # {}
         THEN IF timer_up = INPUT_REPEAT_DELAY
              THEN [repeated |-> held, repeat_timer |-> 0]
              ELSE [repeated |-> {}, repeat_timer |-> timer_up]
    ELSE [repeated |-> {}, repeat_timer |-> 0]

(* The timer and `repeated` after the if / else if / else on the d-pad.    *)
RepeatState(timer_up, held, prev_held) ==
    IF held # prev_held THEN [repeated |-> {}, repeat_timer |-> 0]
    ELSE IF held # {}
         THEN IF timer_up = INPUT_REPEAT_DELAY
              THEN [repeated |-> held,
                    repeat_timer |-> INPUT_REPEAT_DELAY - INPUT_REPEAT_RATE]
              ELSE [repeated |-> {}, repeat_timer |-> timer_up]
    ELSE [repeated |-> {}, repeat_timer |-> 0]

(* An edge detector that reports every held button as pressed.             *)
input_poll_Level(inp, joypad) ==
    LET rs == RepeatState(U8(inp.repeat_timer + 1),
                          joypad \cap DPAD_MASK, inp.current \cap DPAD_MASK)
    IN  [current |-> joypad, pressed |-> joypad,
         repeated |-> rs.repeated, repeat_timer |-> rs.repeat_timer]

(* inp after input_poll(inp) when joypad() returns `joypad`.               *)
input_poll(inp, joypad) ==
    LET rs == RepeatState(U8(inp.repeat_timer + 1),
                          joypad \cap DPAD_MASK, inp.current \cap DPAD_MASK)
    IN  [current |-> joypad, pressed |-> joypad \ inp.current,
         repeated |-> rs.repeated, repeat_timer |-> rs.repeat_timer]

(* ---- cursor.c ---- *)
(* Of cursor_t the board cell (col, row) and the ghost stone (ghost_tile,  *)
(* surface_cache) are followed; the sprite position is not.                *)
recompute_ghost(c, g) ==
    [c EXCEPT !.surface_cache = surface_tile(c.col, c.row, g.width, g.height),
              !.ghost_tile = IF game_can_play_approx(g, c.col, c.row) # 0
                             THEN (IF game_color_to_play(g) = BLACK
                                   THEN TILE_STONE_B ELSE TILE_STONE_W)
                             ELSE 0]

cursor_init(col, row, g) ==
    recompute_ghost([col |-> col, row |-> row, ghost_tile |-> 0,
                     surface_cache |-> 0], g)

(* The four d-pad ifs of cursor_update, in the order of the code.          *)
CursorLeft(c, trigger) ==
    IF J_LEFT \in trigger /\ c.col > 0 THEN [c EXCEPT !.col = U8(@ - 1)] ELSE c
(* A move to the right with no test against the board's width.            *)
CursorRight_NoClamp(c, trigger, g) ==
    IF J_RIGHT \in trigger THEN [c EXCEPT !.col = U8(@ + 1)] ELSE c

CursorRight(c, trigger, g) ==
    IF J_RIGHT \in trigger /\ c.col < g.width - 1
    THEN [c EXCEPT !.col = U8(@ + 1)] ELSE c
CursorUp(c, trigger) ==
    IF J_UP \in trigger /\ c.row > 0 THEN [c EXCEPT !.row = U8(@ - 1)] ELSE c
CursorDown(c, trigger, g) ==
    IF J_DOWN \in trigger /\ c.row < g.height - 1
    THEN [c EXCEPT !.row = U8(@ + 1)] ELSE c

CursorMove(c, trigger, g) ==
    CursorDown(CursorUp(CursorRight(CursorLeft(c, trigger), trigger, g), trigger),
               trigger, g)

(* The cursor and the BG map once the d-pad has moved the cursor c to m.   *)
CursorMoved(c, m, vr, g) ==
    IF m.col # c.col \/ m.row # c.row
    THEN [c    |-> recompute_ghost(m, g),
          vram |-> IF c.ghost_tile # 0
                   THEN vram_set_tile(vr, c.col, c.row, c.surface_cache)
                   ELSE vr]
    ELSE [c |-> c, vram |-> vr]

cursor_update(c, vr, inp, g) ==
    CursorMoved(c, CursorMove(c, inp.pressed \cup inp.repeated, g), vr, g)

(* The BG map after cursor_draw(c); frame_count is read, and is not        *)
(* written anywhere in the source.                                         *)
cursor_draw(c, vr, frame_count) ==
    IF c.ghost_tile # 0
    THEN vram_set_tile(vr, c.col, c.row,
                       IF frame_count % 2 = 1 THEN c.ghost_tile
                       ELSE c.surface_cache)
    ELSE vr

(* ---- inputs explored ---- *)
(* Board points targeted in play: the three corner points all of whose     *)
(* neighbours are targets or off the board, and those neighbours.          *)
PlayCells == { <<0, 0>>, <<1, 0>>, <<0, 1>>, <<2, 0>>, <<1, 1>>, <<0, 2>> }
(* Arguments used when the functions are called with any uint8 col, row:   *)
(* the corner, and arguments outside [0,width) x [0,height): the margin    *)
(* column, the margin row, a column one padded row further on, and the     *)
(* largest column.  All of them and their neighbours index inside the      *)
(* bit-fields.                                                             *)
CornerCells == { <<0, 0>>, <<1, 0>>, <<0, 1>> }
OutOfRangeInputs ==
    { <<BoardW, 0>>, <<0, BoardH>>, <<BOARD_MAX_EXTENT, 0>>, <<255, 0>> }
ApiInputs == CornerCells \cup OutOfRangeInputs

(* Targets played between resets: the corner and the margin column of the *)
(* board of main(), which is a board column after a reset to a wider one.  *)
ResetPlayInputs == CornerCells \cup { <<BoardW, 0>> }

(* Arguments of game_reset: the size of main() with another komi, a wider  *)
(* board, and a width and a height next to the range of the asserts.       *)
ResetArgs ==
    { <<BoardW, BoardH, 0>>, <<BoardW + 1, BoardH, Komi2>>,
      <<BOARD_MIN_SIZE - 1, BoardH, Komi2>>,
      <<BoardW, BOARD_MAX_SIZE + 1, Komi2>> }

(* What joypad() returns in a frame: nothing, A, left, and A with left.    *)
JoypadSamples == { {}, {J_A}, {J_LEFT}, {J_A, J_LEFT} }
FrameCounts == {0, 1}

(* Points asked about in play: the targets of play and the last point of  *)
(* the board, which stays empty.                                           *)
QueryCells == PlayCells \cup { <<BoardW - 1, BoardH - 1>> }

VramOffsets ==
    { row * BkgMapWidth + col : col \in 0 .. (BoardW - 1), row \in 0 .. (BoardH - 1) }
    \cup { in[2] * BkgMapWidth + in[1] : in \in PlayCells \cup ApiInputs }

(* ---- state ---- *)
(* The fields of the game_t at SRAM_BASE, the BG map, the scratch buffers  *)
(* of main(), and the last call made: the function called (call) and the   *)
(* value it returned (result).                                             *)
(* twin is a second run of the program on memory of its own, fed the same  *)
(* calls (<< >> where only one run is followed); calls counts the calls    *)
(* made where their number is bounded.  game_input and game_cursor are the *)
(* input_t and the cursor_t of main() (the cursor is << >> where main()'s  *)
(* loop is not followed).                                                  *)
VARIABLES width, height, komi2, ko, move_count,
          on_board, black_stones, white_stones, history,
          vram, flood_stack, flood_visited, call, result, twin, calls,
          game_input, game_cursor, args

vars == <<width, height, komi2, ko, move_count, on_board, black_stones,
          white_stones, history, vram, flood_stack, flood_visited, call, result,
          twin, calls, game_input, game_cursor, args>>

mainVars == <<game_input, game_cursor>>

gameVars == <<width, height, komi2, ko, move_count, on_board, black_stones,
              white_stones, history>>

game == [width |-> width, height |-> height, komi2 |-> komi2, ko |-> ko,
         move_count |-> move_count, on_board |-> on_board,
         black_stones |-> black_stones, white_stones |-> white_stones,
         history |-> history]

(* main() up to the loop: game_reset(g, w, h, komi2) and board_redraw(g)   *)
(* on a blank BG map.                                                      *)
Boot ==
    LET g0 == game_reset([width |-> 0, height |-> 0, komi2 |-> 0, ko |-> 0,
                          move_count |-> 0, on_board |-> {}, black_stones |-> {},
                          white_stones |-> {}, history |-> << >>],
                         BoardW, BoardH, Komi2)
    IN  /\ width = g0.width
        /\ height = g0.height
        /\ komi2 = g0.komi2
        /\ ko = g0.ko
        /\ move_count = g0.move_count
        /\ on_board = g0.on_board
        /\ black_stones = g0.black_stones
        /\ white_stones = g0.white_stones
        /\ history = g0.history
        /\ vram = board_redraw(g0, [off \in VramOffsets |-> 0])
        /\ flood_stack = << >>
        /\ flood_visited = {}
        /\ call = "game_reset"
        /\ result = 0

NoMain == game_input = ZeroInput /\ game_cursor = << >> /\ args = << >>

Init == Boot /\ twin = << >> /\ calls = 0 /\ NoMain

(* One call game_play_move(g, col, row, color, flood_stack, flood_visited), *)
(* made while fewer than `limit` moves are recorded or when it is rejected. *)
PlayCall(col, row, color, limit) ==
    \E o \in { game_play_move(game, vram, col, row, color,
                              flood_stack, flood_visited) } :
        /\ (o.result = MOVE_LEGAL => move_count < limit)
        /\ width' = o.g.width
        /\ height' = o.g.height
        /\ komi2' = o.g.komi2
        /\ ko' = o.g.ko
        /\ move_count' = o.g.move_count
        /\ on_board' = o.g.on_board
        /\ black_stones' = o.g.black_stones
        /\ white_stones' = o.g.white_stones
        /\ history' = o.g.history
        /\ vram' = o.vram
        /\ flood_stack' = o.queue
        /\ flood_visited' = o.visited
        /\ call' = "game_play_move"
        /\ result' = o.result

PlayMove(col, row, color) == PlayCall(col, row, color, MaxMoves)

(* One call game_can_play_approx(g, col, row): it reads *g only.           *)
CanPlayApprox(col, row) ==
    /\ call' = "game_can_play_approx"
    /\ result' = game_can_play_approx(game, col, row)
    /\ UNCHANGED <<gameVars, vram, flood_stack, flood_visited>>

(* One call game_color_to_play(g): it reads *g only.                       *)
ColorToPlay ==
    /\ call' = "game_color_to_play"
    /\ result' = game_color_to_play(game)
    /\ UNCHANGED <<gameVars, vram, flood_stack, flood_visited>>

(* The two asserts of game_reset hold for these arguments.                 *)
ResetAssertsHold(w, h) ==
    /\ w >= BOARD_MIN_SIZE /\ w <= BOARD_MAX_SIZE
    /\ h >= BOARD_MIN_SIZE /\ h <= BOARD_MAX_SIZE

(* The writes of one call game_reset(g, w, h, k2).  A build with NDEBUG    *)
(* (RELEASE) has no asserts and makes them for any arguments; a debug      *)
(* build makes them when the asserts hold and stops when one fails.        *)
ResetWrites(w, h, k2) ==
    \E g2 \in { game_reset(game, w, h, k2) } :
        /\ width' = g2.width
        /\ height' = g2.height
        /\ komi2' = g2.komi2
        /\ ko' = g2.ko
        /\ move_count' = g2.move_count
        /\ on_board' = g2.on_board
        /\ black_stones' = g2.black_stones
        /\ white_stones' = g2.white_stones
        /\ history' = g2.history
        /\ call' = "game_reset"
        /\ result' = 0
        /\ UNCHANGED <<vram, flood_stack, flood_visited>>

(* A failed assert stops the program with the game state as it was.        *)
ResetAborts ==
    /\ call' = "assert"
    /\ UNCHANGED <<gameVars, vram, flood_stack, flood_visited, result>>

(* Play as main() drives it: targets on the board, either color.           *)
Next ==
    /\ \E in \in PlayCells, color \in Colors : PlayMove(in[1], in[2], color)
    /\ UNCHANGED <<twin, calls, mainVars, args>>

Spec == Init /\ [][Next]_vars

(* The three functions of go.h called with any arguments.                  *)
ApiPlay ==
    /\ \E in \in ApiInputs, color \in Colors : PlayMove(in[1], in[2], color)
    /\ UNCHANGED <<twin, calls, mainVars, args>>

ApiCanPlay ==
    /\ \E in \in ApiInputs : CanPlayApprox(in[1], in[2])
    /\ UNCHANGED <<twin, calls, mainVars, args>>

ApiColor == ColorToPlay /\ UNCHANGED <<twin, calls, mainVars, args>>

NextApi == ApiPlay \/ ApiCanPlay \/ ApiColor

SpecApi == Init /\ [][NextApi]_vars

(* Two runs from the same game_reset, fed the same game_play_move calls;   *)
(* the second run's scratch buffers start with contents left by other use. *)
ScratchContents ==
    { [queue |-> << >>, visited |-> ResetOnBoard(BoardW, BoardH)],
      [queue   |-> <<BOARD_COORD(1, 0), BOARD_COORD(0, 0), BOARD_COORD(0, 1)>>,
       visited |-> {0, BOARD_COORD(1, 0), BOARD_COORD(0, 1)}] }

InitTwin ==
    /\ Boot
    /\ calls = 0
    /\ NoMain
    /\ \E sc \in ScratchContents :
          twin = [g |-> game, vram |-> vram, queue |-> sc.queue,
                  visited |-> sc.visited, result |-> result]

TwinPlay(col, row, color) ==
    /\ PlayMove(col, row, color)
    /\ \E o \in { game_play_move(twin.g, twin.vram, col, row, color,
                                 twin.queue, twin.visited) } :
          twin' = [g |-> o.g, vram |-> o.vram, queue |-> o.queue,
                   visited |-> o.visited, result |-> o.result]

NextTwin ==
    /\ \E in \in PlayCells, color \in Colors : TwinPlay(in[1], in[2], color)
    /\ UNCHANGED <<calls, mainVars, args>>

SpecTwin == InitTwin /\ [][NextTwin]_vars

(* Play on the first point and around the last point of boards of the smallest and the largest  *)
(* size and of a board of main()'s width and the largest height.           *)
CoordSizes ==
    { <<BOARD_MIN_SIZE, BOARD_MIN_SIZE>>, <<BOARD_MAX_SIZE, BOARD_MAX_SIZE>>,
      <<BoardW, BOARD_MAX_SIZE>> }

(* game_reset(g, w, h, komi2) on zeroed memory; the BG map is blank.       *)
InitCoord ==
    \E sz \in CoordSizes :
      \E g0 \in { game_reset([width |-> 0, height |-> 0, komi2 |-> 0, ko |-> 0,
                              move_count |-> 0, on_board |-> {},
                              black_stones |-> {}, white_stones |-> {},
                              history |-> << >>],
                             sz[1], sz[2], Komi2) } :
        /\ width = g0.width
        /\ height = g0.height
        /\ komi2 = g0.komi2
        /\ ko = g0.ko
        /\ move_count = g0.move_count
        /\ on_board = g0.on_board
        /\ black_stones = g0.black_stones
        /\ white_stones = g0.white_stones
        /\ history = g0.history
        /\ vram = [off \in VramOffsets |-> 0]
        /\ flood_stack = << >>
        /\ flood_visited = {}
        /\ call = "game_reset"
        /\ result = 0
        /\ twin = << >>
        /\ calls = 0
        /\ NoMain

CornerTargets(w, h) ==
    { <<0, 0>>, <<w - 1, h - 1>>, <<w - 2, h - 1>>, <<w - 1, h - 2>> }

NextCoord ==
    /\ \E in \in CornerTargets(width, height), color \in Colors :
          PlayMove(in[1], in[2], color)
    /\ UNCHANGED <<twin, calls, mainVars, args>>

SpecCoord == InitCoord /\ [][NextCoord]_vars

(* A caller that starts new games: game_play_move and game_reset in any    *)
(* order, MaxCalls calls in all.  Nothing runs after a failed assert.      *)
Counted ==
    /\ call # "assert"
    /\ calls < MaxCalls
    /\ calls' = calls + 1
    /\ UNCHANGED <<twin, mainVars, args>>

ResetPlay ==
    /\ Counted
    /\ \E in \in ResetPlayInputs, color \in Colors : PlayMove(in[1], in[2], color)

(* game_reset runs to its end: its asserts hold, or the build has none.    *)
ApiReset ==
    /\ Counted
    /\ \E a \in ResetArgs : ResetWrites(a[1], a[2], a[3])

(* game_reset stops at a failed assert (a build without NDEBUG).           *)
ApiResetAsserts ==
    /\ Counted
    /\ \E a \in ResetArgs : ~ResetAssertsHold(a[1], a[2]) /\ ResetAborts

NextReset == ResetPlay \/ ApiReset \/ ApiResetAsserts

SpecReset == Init /\ [][NextReset]_vars

(* Play around a ko on the left edge: <<col, row, color>> of the calls, in *)
(* any order, up to SnapbackMoves recorded moves.                          *)
SnapbackInputs ==
    { <<1, 0, BLACK>>, <<0, 2, BLACK>>, <<0, 1, BLACK>>,
      <<0, 0, WHITE>>, <<1, 1, WHITE>>, <<1, 2, WHITE>>, <<0, 3, WHITE>> }

SnapbackPlay ==
    /\ \E in \in SnapbackInputs : PlayCall(in[1], in[2], in[3], SnapbackMoves)
    /\ UNCHANGED <<twin, calls, mainVars, args>>

SpecSnapback == Init /\ [][SnapbackPlay]_vars

(* A long game, the colors taking turns as in main(): an opening that      *)
(* builds two kos on the left edge, then the four captures that take the   *)
(* kos in turn, over and over.  Every call of the line is Legal.           *)
LongGameOpening ==
    << <<3, 1>>, <<4, 4>>, <<0, 3>>, <<1, 3>>, <<1, 1>>, <<4, 0>>, <<4, 3>>,
       <<1, 4>>, <<2, 2>>, <<2, 4>>, <<3, 2>>, <<3, 0>>, <<0, 0>>, <<4, 2>>,
       <<1, 2>>, <<3, 3>>, <<4, 1>>, <<2, 3>>, <<1, 0>>, <<2, 1>>, <<0, 4>> >>

LongGameCycle == << <<0, 2>>, <<0, 4>>, <<0, 1>>, <<0, 3>> >>

(* The target of the call made when n moves are recorded.                  *)
LongGameTarget(n) ==
    IF n < Len(LongGameOpening) THEN LongGameOpening[n + 1]
    ELSE LongGameCycle[((n - Len(LongGameOpening)) % Len(LongGameCycle)) + 1]

(* The write history[move_count++] has no test of move_count against       *)
(* HISTORY_MAX: the call made with HISTORY_MAX moves recorded writes past  *)
(* the array (the entry beyond HISTORY_MAX in the model's history).  The   *)
(* game is followed up to that write.                                      *)
LongPlay ==
    /\ \E in \in { LongGameTarget(move_count) } :
          PlayCall(in[1], in[2], move_count % 2, HISTORY_MAX + 1)
    /\ UNCHANGED <<twin, calls, mainVars, args>>

SpecLong == Init /\ [][LongPlay]_vars

(* cursor_update called with any input: every set of d-pad bits in        *)
(* `pressed`, with none, one or all of them in `repeated`.                 *)
CursorInputs ==
    { [current |-> p \cup r, pressed |-> p, repeated |-> r, repeat_timer |-> 0] :
        p \in SUBSET DPAD_MASK,
        r \in { {}, {J_RIGHT}, {J_DOWN}, DPAD_MASK } }

(* main() up to cursor_init(game_cursor, g->width / 2, g->height / 2, g).  *)
InitCursor ==
    /\ Boot
    /\ twin = << >>
    /\ calls = 0
    /\ game_input = ZeroInput
    /\ game_cursor = cursor_init(width \div 2, height \div 2, game)
    /\ args = << >>

(* One call cursor_update(game_cursor, inp, g).                            *)
ApiCursorUpdate ==
    \E inp \in CursorInputs :
      \E cu \in { cursor_update(game_cursor, vram, inp, game) } :
        /\ game_input' = inp
        /\ game_cursor' = cu.c
        /\ vram' = cu.vram
        /\ call' = "cursor_update"
        /\ UNCHANGED <<gameVars, flood_stack, flood_visited, result, twin, calls,
                       args>>

SpecCursor == InitCursor /\ [][ApiCursorUpdate]_vars

(* main(): game_reset, board_redraw, cursor_init and cursor_draw, then the *)
(* loop, one iteration per frame.                                          *)
InitMain ==
    \E frame_count \in FrameCounts :
      \E g0 \in { game_reset([width |-> 0, height |-> 0, komi2 |-> 0, ko |-> 0,
                              move_count |-> 0, on_board |-> {},
                              black_stones |-> {}, white_stones |-> {},
                              history |-> << >>],
                             BoardW, BoardH, Komi2) } :
        \E c0 \in { cursor_init(g0.width \div 2, g0.height \div 2, g0) } :
          /\ width = g0.width
          /\ height = g0.height
          /\ komi2 = g0.komi2
          /\ ko = g0.ko
          /\ move_count = g0.move_count
          /\ on_board = g0.on_board
          /\ black_stones = g0.black_stones
          /\ white_stones = g0.white_stones
          /\ history = g0.history
          /\ vram = cursor_draw(c0, board_redraw(g0, [off \in VramOffsets |-> 0]),
                                frame_count)
          /\ flood_stack = << >>
          /\ flood_visited = {}
          /\ call = "game_reset"
          /\ result = 0
          /\ twin = << >>
          /\ calls = 0
          /\ game_input = ZeroInput
          /\ game_cursor = c0
          /\ args = << >>

(* A loop that passes BLACK with every call.                               *)
LoopPlay_AlwaysBlack(inp) ==
    IF J_A \in inp.pressed
    THEN game_play_move(game, vram, game_cursor.col, game_cursor.row,
                        BLACK, flood_stack, flood_visited)
    ELSE Outcome(game, vram, flood_visited, flood_stack, result, TRUE)

(* if (game_input->pressed & J_A) game_play_move(g, col, row,              *)
(* g->move_count & 1, flood_stack, flood_visited): the outcome of the      *)
(* call, or the state as it is when A is not newly pressed.                *)
LoopPlay(inp) ==
    IF J_A \in inp.pressed
    THEN game_play_move(game, vram, game_cursor.col, game_cursor.row,
                        move_count % 2, flood_stack, flood_visited)
    ELSE Outcome(game, vram, flood_visited, flood_stack, result, TRUE)

(* The rest of the iteration: cursor_update and cursor_draw on the game o  *)
(* left by the first half.                                                 *)
LoopCursor(o, cu, frame_count) ==
    /\ game_cursor' = cu.c
    /\ vram' = cursor_draw(cu.c, cu.vram, frame_count)
    /\ width' = o.g.width
    /\ height' = o.g.height
    /\ komi2' = o.g.komi2
    /\ ko' = o.g.ko
    /\ move_count' = o.g.move_count
    /\ on_board' = o.g.on_board
    /\ black_stones' = o.g.black_stones
    /\ white_stones' = o.g.white_stones
    /\ history' = o.g.history
    /\ flood_stack' = o.queue
    /\ flood_visited' = o.visited
    /\ result' = o.result

(* One iteration of the loop of main(), joypad() returning `joypad`.       *)
MainLoop(joypad, frame_count) ==
    \E inp \in { input_poll(game_input, joypad) } :
      \E o \in { LoopPlay(inp) } :
        /\ game_input' = inp
        /\ IF J_A \in inp.pressed
           THEN /\ calls < MaxCalls
                /\ (o.result = MOVE_LEGAL => move_count < MaxMoves)
                /\ calls' = calls + 1
                /\ call' = "game_play_move"
           ELSE UNCHANGED <<calls, call>>
        /\ \E cu \in { cursor_update(game_cursor, o.vram, inp, o.g) } :
              LoopCursor(o, cu, frame_count)
        /\ UNCHANGED <<twin, args>>

NextMain ==
    \E joypad \in JoypadSamples, frame_count \in FrameCounts :
        MainLoop(joypad, frame_count)

SpecMain == InitMain /\ [][NextMain]_vars

(* (int16_t) of a 16-bit value.                                            *)
Int16(x) == IF x >= 32768 THEN x - 65536 ELSE x

(* x >> n on an int16_t: the shift keeps the sign.                          *)
Asr(x, n) == x \div Pow2(n)

(* A clamp that leaves out the test against delta.                          *)
TrackClamp_Overshoot(delta, step) ==
    IF delta > 0
    THEN IF step < CURSOR_MIN_STEP THEN CURSOR_MIN_STEP ELSE step
    ELSE IF step > -CURSOR_MIN_STEP THEN -CURSOR_MIN_STEP ELSE step

(* The two clamps of track on step, for delta # 0.                          *)
TrackClamp(delta, step) ==
    IF delta > 0
    THEN IF step < CURSOR_MIN_STEP
         THEN IF CURSOR_MIN_STEP > delta THEN delta ELSE CURSOR_MIN_STEP
         ELSE IF step > delta THEN delta ELSE step
    ELSE IF step > -CURSOR_MIN_STEP
         THEN IF -CURSOR_MIN_STEP < delta THEN delta ELSE -CURSOR_MIN_STEP
         ELSE IF step < delta THEN delta ELSE step

TrackStep(cur, delta) ==
    IF delta = 0 THEN cur
    ELSE U16(cur + TrackClamp(delta, Int16(U16(Asr(delta, 3) + Asr(delta, 4)))))

track(cur, tgt) == TrackStep(cur, Int16(U16(tgt - cur)))

(* track on its own: c->x = track(c->x, tx) once per frame, while the      *)
(* cursor stays on one point so that tx is the same in every frame.        *)
(* args = <<c->x, tx>>.                                                    *)
TrackTargets == { 10240, 32768 }

InitTrack ==
    /\ Boot
    /\ twin = << >>
    /\ calls = 0
    /\ game_input = ZeroInput
    /\ game_cursor = << >>
    /\ \E tx \in TrackTargets : \E x \in (tx - TrackReach) .. (tx + TrackReach) :
          args = <<x, tx>>

CursorTrack ==
    /\ args' = <<track(args[1], args[2]), args[2]>>
    /\ call' = "track"
    /\ UNCHANGED <<gameVars, vram, flood_stack, flood_visited, result, twin,
                   calls, mainVars>>

(* The loop runs one cursor_update per frame and never blocks.              *)
SpecTrack == InitTrack /\ [][CursorTrack]_vars /\ WF_vars(CursorTrack)

(* MOVE_MAKE and COLOR_OPPOSITE on their own: args = <<coord, color>>, the  *)
(* coordinate any value of the 15 bits a move_t gives it.                   *)
InitMove ==
    /\ Boot
    /\ twin = << >>
    /\ calls = 0
    /\ game_input = ZeroInput
    /\ game_cursor = << >>
    /\ \E coord \in 0 .. MOVE_COORD_MASK, color \in Colors : args = <<coord, color>>

MoveMake ==
    /\ result' = MOVE_MAKE(args[1], args[2])
    /\ call' = "MOVE_MAKE"
    /\ UNCHANGED <<gameVars, vram, flood_stack, flood_visited, twin, calls,
                   mainVars, args>>

ColorOpposite ==
    /\ result' = COLOR_OPPOSITE(args[2])
    /\ call' = "COLOR_OPPOSITE"
    /\ UNCHANGED <<gameVars, vram, flood_stack, flood_visited, twin, calls,
                   mainVars, args>>

NextMove == MoveMake \/ ColorOpposite

SpecMove == InitMove /\ [][NextMove]_vars

(* BOARD_COORD and the decoding of remove_captured on their own:            *)
(* args = <<col, row>>, any point of the largest board.                     *)
InitDecode ==
    /\ Boot
    /\ twin = << >>
    /\ calls = 0
    /\ game_input = ZeroInput
    /\ game_cursor = << >>
    /\ \E col \in 0 .. (BOARD_MAX_SIZE - 1), row \in 0 .. (BOARD_MAX_SIZE - 1) :
          args = <<col, row>>

BoardCoord ==
    /\ call # "BOARD_COORD"
    /\ result' = BOARD_COORD(args[1], args[2])
    /\ call' = "BOARD_COORD"
    /\ UNCHANGED <<gameVars, vram, flood_stack, flood_visited, twin, calls,
                   mainVars, args>>

CapturedPoint ==
    /\ call = "BOARD_COORD"
    /\ result' = <<CapturedCol(result), CapturedRow(result)>>
    /\ call' = "remove_captured"
    /\ UNCHANGED <<gameVars, vram, flood_stack, flood_visited, twin, calls,
                   mainVars, args>>

NextDecode == BoardCoord \/ CapturedPoint

SpecDecode == InitDecode /\ [][NextDecode]_vars

(* input_poll on its own: the joypad() bytes one frame may read, with and   *)
(* without d-pad bits and with a button outside DPAD_MASK.                  *)
PollSamples ==
    { {}, {J_A}, {J_LEFT}, {J_LEFT, J_A}, {J_RIGHT}, {J_LEFT, J_UP} }

(* One call input_poll(game_input) reading `joypad`. `calls` counts the     *)
(* polls made since the held d-pad bits last changed, while some are held.  *)
PollHeld(joypad) ==
    /\ joypad \cap DPAD_MASK = game_input.current \cap DPAD_MASK
    /\ joypad \cap DPAD_MASK # {}

ApiInputPoll ==
    \E joypad \in PollSamples :
        /\ PollHeld(joypad) => calls < MaxPolls
        /\ game_input' = input_poll(game_input, joypad)
        /\ calls' = IF PollHeld(joypad) THEN calls + 1 ELSE 0
        /\ call' = "input_poll"
        /\ UNCHANGED <<gameVars, vram, flood_stack, flood_visited, result, twin,
                       game_cursor, args>>

SpecInput == Init /\ [][ApiInputPoll]_vars


(* ======================= properties ======================= *)

AllStones == black_stones \cup white_stones

(* C1: in every state reached by play on the board, no coordinate holds    *)
(* both a black and a white stone, and every stone is on the board.        *)
C1_StonesExclusiveOnBoard ==
    /\ black_stones \cap white_stones = {}
    /\ black_stones \subseteq on_board
    /\ white_stones \subseteq on_board

(* Stones of both colors are on the board after a capturing move.          *)
C1_Witness ==
    /\ call = "game_play_move" /\ result = MOVE_LEGAL
    /\ black_stones # {} /\ white_stones # {}
    /\ Cardinality(AllStones) < move_count


(* C2: every game_play_move call that returns NotPlayable, Suicidal or     *)
(* KoViolation leaves every field of the game state as it was before the   *)
(* call.                                                                   *)
C2_RejectedCallChangesNothing ==
    [][(call' = "game_play_move" /\ result' # MOVE_LEGAL)
         => UNCHANGED gameVars]_vars


(* ---- the rules of Go, stated on sets of points ---- *)
(* The four points adjacent to p in the padded grid.                       *)
Adjacent(p) == { p - BOARD_MAX_EXTENT, p + BOARD_MAX_EXTENT, p - 1, p + 1 }

(* The maximal group of `stones` connected to the points of grp.           *)
RECURSIVE RuleGroup(_, _)
RuleGroup(stones, grp) ==
    LET more == { q \in stones \ grp : \E p \in grp : q \in Adjacent(p) }
    IN  IF more = {} THEN grp ELSE RuleGroup(stones, grp \cup more)

(* grp has a liberty: an empty point of the board adjacent to a member.    *)
RuleHasLiberty(grp, board, occupied) ==
    \E p \in grp : \E q \in Adjacent(p) : q \in board /\ q \notin occupied

(* The opposing stones a stone of `own` placed on t removes: the union of  *)
(* the opposing groups adjacent to t that have no liberty once t is taken. *)
RuleCaptured(t, board, own, opp) ==
    UNION { RuleGroup(opp, {q}) :
              q \in { r \in Adjacent(t) \cap opp :
                        ~RuleHasLiberty(RuleGroup(opp, {r}), board,
                                        own \cup opp \cup {t}) } }

(* The step is a call that committed a stone (not a pass).                 *)
LegalStoneStep ==
    /\ call' = "game_play_move" /\ result' = MOVE_LEGAL
    /\ move_count' = move_count + 1
    /\ history'[move_count'] % (COORD_PASS + 1) # COORD_PASS

(* Target and color of the move committed by the step.                    *)
StepTarget == history'[move_count'] % (COORD_PASS + 1)
StepColor == history'[move_count'] \div (COORD_PASS + 1)

(* C3: a Legal stone move at t by color c adds t to c's stones and removes *)
(* from the opponent's stones exactly the opposing groups adjacent to t    *)
(* that have no liberty once t is occupied; nothing else changes.          *)
C3_LegalMoveIsGoMove ==
    [][LegalStoneStep =>
         LET t   == StepTarget
             own == IF StepColor = BLACK THEN black_stones ELSE white_stones
             opp == IF StepColor = BLACK THEN white_stones ELSE black_stones
             ownAfter == IF StepColor = BLACK THEN black_stones' ELSE white_stones'
             oppAfter == IF StepColor = BLACK THEN white_stones' ELSE black_stones'
         IN  /\ t \notin own \cup opp
             /\ ownAfter = own \cup {t}
             /\ oppAfter = opp \ RuleCaptured(t, on_board, own, opp)]_vars

(* Black has just captured the white two-stone group in the corner.        *)
C3_Witness ==
    /\ call = "game_play_move" /\ result = MOVE_LEGAL
    /\ move_count = 5
    /\ white_stones = {}
    /\ black_stones = { BOARD_COORD(2, 0), BOARD_COORD(1, 1), BOARD_COORD(0, 1) }

(* C4: after a Legal stone move, ko is the point of the removed stone if   *)
(* the move removed exactly one stone, and COORD_PASS if it removed none   *)
(* or more than one.                                                       *)
C4_KoAfterLegalMove ==
    [][LegalStoneStep =>
         LET removed == AllStones \ AllStones'
         IN  IF Cardinality(removed) = 1
             THEN ko' \in removed
             ELSE ko' = COORD_PASS]_vars

(* A move has just captured a single stone and ko is its point.            *)
C4_Witness ==
    /\ call = "game_play_move" /\ result = MOVE_LEGAL
    /\ ko # COORD_PASS /\ ko \in on_board /\ ko \notin AllStones
    /\ Cardinality(AllStones) = move_count - 1


(* C5: whenever ko is a real coordinate, a call whose target is ko returns *)
(* KoViolation for either color and changes nothing.                      *)
C5_PlayAtKoIsRejected ==
    ko # COORD_PASS =>
        \A in \in PlayCells, color \in Colors :
            BOARD_COORD(in[1], in[2]) = ko =>
                LET o == game_play_move(game, vram, in[1], in[2], color,
                                        flood_stack, flood_visited)
                IN  /\ o.result = MOVE_KO
                    /\ o.g = game
                    /\ o.vram = vram

(* A call at the point of the single stone just captured was rejected.     *)
C5_Witness ==
    /\ call = "game_play_move" /\ result = MOVE_KO
    /\ ko # COORD_PASS /\ ko \notin AllStones
    /\ Cardinality(AllStones) = move_count - 1

(* A stone of color c on t would be a suicide by the rules: t is an empty  *)
(* point of the board other than ko, the stone captures nothing, and its   *)
(* group has no liberty.                                                   *)
RuleSuicide(t, c) ==
    LET own == IF c = BLACK THEN black_stones ELSE white_stones
        opp == IF c = BLACK THEN white_stones ELSE black_stones
    IN  /\ t \in on_board /\ t \notin AllStones /\ t # ko
        /\ RuleCaptured(t, on_board, own, opp) = {}
        /\ ~RuleHasLiberty(RuleGroup(own \cup {t}, {t}), on_board,
                           AllStones \cup {t})

(* C6: game_play_move returns Suicidal exactly for the suicides; a move    *)
(* that captures is never Suicidal.                                        *)
C6_SuicidalIffSuicide ==
    \A in \in PlayCells, color \in Colors :
        LET o == game_play_move(game, vram, in[1], in[2], color,
                                flood_stack, flood_visited)
        IN  (o.result = MOVE_SUICIDAL) <=> RuleSuicide(BOARD_COORD(in[1], in[2]), color)

(* A call was just rejected as Suicidal; the target (the seed of the own-  *)
(* group flood) is an empty board point.                                   *)
C6_Witness ==
    /\ call = "game_play_move" /\ result = MOVE_SUICIDAL
    /\ flood_stack # << >>
    /\ flood_stack[1] \in on_board /\ flood_stack[1] \notin AllStones

(* A stone with no liberty of its own was just committed because it        *)
(* captured: every neighbour on the board was occupied before the move.    *)
C6_CaptureWitness ==
    /\ call = "game_play_move" /\ result = MOVE_LEGAL /\ move_count > 0
    /\ LET t == MOVE_COORD(history[move_count])
       IN  /\ Adjacent(t) \cap on_board \cap AllStones # Adjacent(t) \cap on_board
           /\ ko \in Adjacent(t)
           /\ \A q \in (Adjacent(t) \cap on_board) \ {ko} :
                  q \in (IF MOVE_COLOR(history[move_count]) = BLACK
                         THEN white_stones ELSE black_stones)


(* C7: for any uint8 col and row, a call on a point that holds a stone, or *)
(* with col outside [0,width) or row outside [0,height), returns           *)
(* NotPlayable and changes nothing.                                        *)
C7_OutOfRangeOrOccupiedIsNotPlayable ==
    \A in \in ApiInputs, color \in Colors :
        (\/ in[1] >= width
         \/ in[2] >= height
         \/ BOARD_COORD(in[1], in[2]) \in AllStones)
        => LET o == game_play_move(game, vram, in[1], in[2], color,
                                   flood_stack, flood_visited)
           IN  o.result = MOVE_NON_EMPTY /\ o.g = game

(* C8: in any state a pass can be played through game_play_move: for each  *)
(* color some uint8 arguments make the call return Legal, set ko to the    *)
(* sentinel, append the record (sentinel, color) and leave the stones.     *)
C8_PassCanBePlayed ==
    \A color \in Colors :
        \E col \in 0 .. 255, row \in 0 .. 255 :
            /\ U16(BOARD_COORD(col, row)) = COORD_PASS
            /\ LET o == game_play_move(game, vram, col, row, color,
                                       flood_stack, flood_visited)
               IN  /\ o.result = MOVE_LEGAL
                   /\ o.g.ko = COORD_PASS
                   /\ o.g.move_count = move_count + 1
                   /\ o.g.history[move_count + 1] = COORD_PASS + color * (COORD_PASS + 1)
                   /\ o.g.black_stones = black_stones
                   /\ o.g.white_stones = white_stones

(* C9: game_color_to_play is Black when move_count is 0 and otherwise the  *)
(* opposite of the color stored in the last history record; after a Legal  *)
(* move that placed a black stone it is White, and after one that placed   *)
(* a white stone it is Black.                                              *)
C9_ColorToPlay ==
    /\ [](IF move_count = 0
          THEN game_color_to_play(game) = BLACK
          ELSE game_color_to_play(game)
                 = 1 - (history[move_count] \div (COORD_PASS + 1)))
    /\ [][LegalStoneStep =>
            /\ (black_stones' \ black_stones # {}
                  => game_color_to_play(game') = WHITE)
            /\ (white_stones' \ white_stones # {}
                  => game_color_to_play(game') = BLACK)]_vars

(* Black has made the first move on the empty board.                       *)
C9_Witness ==
    /\ call = "game_play_move" /\ result = MOVE_LEGAL
    /\ move_count = 1 /\ Cardinality(black_stones) = 1 /\ white_stones = {}
    /\ game_color_to_play(game) = WHITE

(* C10: game_can_play_approx returns false if the coordinate is ko or      *)
(* holds a stone and true otherwise, and a call of game_can_play_approx    *)
(* or game_color_to_play changes no field of the game state, so that two   *)
(* game_color_to_play calls in a row return the same value.                *)
C10_ApproxQuery ==
    /\ [](\A in \in ApiInputs :
            game_can_play_approx(game, in[1], in[2])
              = IF \/ BOARD_COORD(in[1], in[2]) = ko
                   \/ BOARD_COORD(in[1], in[2]) \in AllStones
                THEN 0 ELSE 1)
    /\ [][call' \in {"game_can_play_approx", "game_color_to_play"}
            => /\ UNCHANGED <<gameVars, vram>>
               /\ (call = "game_color_to_play" /\ call' = "game_color_to_play"
                     => result' = result)]_vars

(* game_can_play_approx has just returned false while a ko is active and   *)
(* a white stone is on the board.                                          *)
C10_Witness ==
    /\ call = "game_can_play_approx" /\ result = 0
    /\ ko # COORD_PASS /\ white_stones # {}

(* C11: two runs that start from the same game_reset and receive the same  *)
(* game_play_move arguments return the same results and hold the same      *)
(* bit-sets, ko, move_count and history after every step, whatever their   *)
(* scratch buffers held at the start.                                      *)
C11_SameCallsSameGame ==
    /\ twin.result = result
    /\ twin.g = game

(* Both runs have captured a single stone while their scratch buffers      *)
(* differ.                                                                 *)
C11_Witness ==
    /\ call = "game_play_move" /\ result = MOVE_LEGAL
    /\ ko # COORD_PASS /\ twin.g.ko # COORD_PASS
    /\ twin.queue # flood_stack


(* C12: move_count equals the number of history records written; a call    *)
(* that returns Legal increases it by one, writes at the old move_count    *)
(* the record of the stone it placed (its point and color) and leaves all  *)
(* earlier records as they were; any other result leaves move_count and    *)
(* history unchanged.                                                      *)
C12_HistoryAppendOnly ==
    /\ [](Len(history) = move_count)
    /\ [][call' = "game_play_move" =>
           IF result' = MOVE_LEGAL
           THEN /\ move_count' = move_count + 1
                /\ \A i \in 1 .. move_count : history'[i] = history[i]
                /\ LET rec == history'[move_count + 1]
                   IN  /\ MOVE_COLOR(rec) \in Colors
                       /\ MOVE_COORD(rec) \notin AllStones
                       /\ MOVE_COORD(rec) \in
                            (IF MOVE_COLOR(rec) = BLACK
                             THEN black_stones' \ black_stones
                             ELSE white_stones' \ white_stones)
           ELSE /\ move_count' = move_count
                /\ history' = history]_vars

(* Three records have been written, the last by a White move, and a call   *)
(* has since been rejected.                                                *)
C12_Witness ==
    /\ call = "game_play_move" /\ result = MOVE_NON_EMPTY
    /\ move_count = 3 /\ Len(history) = 3
    /\ MOVE_COLOR(history[3]) = WHITE /\ MOVE_COLOR(history[1]) = BLACK


(* C13: in every reachable state ko is COORD_PASS or a coordinate that is  *)
(* set in on_board and in neither black_stones nor white_stones.           *)
C13_KoIsSentinelOrEmptyPoint ==
    \/ ko = COORD_PASS
    \/ /\ BF_GET(on_board, ko)
       /\ ~BF_GET(black_stones, ko)
       /\ ~BF_GET(white_stones, ko)

(* A ko point set by a capture is still in force after a later call was    *)
(* rejected for an occupied target.                                        *)
C13_Witness ==
    /\ call = "game_play_move" /\ result = MOVE_NON_EMPTY
    /\ ko # COORD_PASS /\ ko \in on_board \ AllStones


(* The coordinates of the w x h rectangle of board points.                 *)
BoardRectangle(w, h) ==
    { BOARD_COORD(col, row) : col \in 0 .. (w - 1), row \in 0 .. (h - 1) }

(* C14: after game_reset with width and height in [5,19] and any calls of  *)
(* game_play_move, every coordinate of the padded grid outside the width x *)
(* height rectangle is clear in on_board, black_stones and white_stones.   *)
C14_OutsideRectangleIsClear ==
    (width \in BOARD_MIN_SIZE .. BOARD_MAX_SIZE
     /\ height \in BOARD_MIN_SIZE .. BOARD_MAX_SIZE)
    => \A p \in (0 .. (BOARD_DATA_LEN - 1)) \ BoardRectangle(width, height) :
          /\ ~BF_GET(on_board, p)
          /\ ~BF_GET(black_stones, p)
          /\ ~BF_GET(white_stones, p)

(* After a reset to a wider board a stone stands on the column that was   *)
(* margin before, and a later call has been rejected.                      *)
C14_Witness ==
    /\ call = "game_play_move" /\ result = MOVE_NON_EMPTY
    /\ width = BoardW + 1
    /\ BF_GET(AllStones, BOARD_COORD(BoardW, 0))


(* C15: BOARD_COORD is injective on [0,width) x [0,height); the four        *)
(* neighbour indices of every such coordinate lie in [0, BOARD_DATA_LEN);  *)
(* and the positions the capture scan and the flood fill have expanded     *)
(* (those marked in visited and queued) are such coordinates, so that      *)
(* every index they form is inside the bit-field.                          *)
C15_NeighboursInsideBitField ==
    /\ \A c1, c2 \in 0 .. (width - 1), r1, r2 \in {0, 1, height - 2, height - 1} :
          BOARD_COORD(c1, r1) = BOARD_COORD(c2, r2) => (c1 = c2 /\ r1 = r2)
    /\ Cardinality(BoardRectangle(width, height)) = width * height
    /\ \A col \in 0 .. (width - 1), row \in 0 .. (height - 1), d \in 1 .. 4 :
          /\ BOARD_COORD(col, row) + dirs[d] >= 0
          /\ BOARD_COORD(col, row) + dirs[d] < BOARD_DATA_LEN
    /\ flood_visited \subseteq BoardRectangle(width, height)
    /\ \A i \in 1 .. Len(flood_stack) :
          flood_stack[i] \in BoardRectangle(width, height)

(* On the largest board a flood fill has run over a two-stone group that   *)
(* holds the last point of the last row.                                   *)
C15_Witness ==
    /\ width = BOARD_MAX_SIZE /\ height = BOARD_MAX_SIZE
    /\ call = "game_play_move" /\ result = MOVE_LEGAL
    /\ BOARD_COORD(BOARD_MAX_SIZE - 1, BOARD_MAX_SIZE - 1) \in flood_visited
    /\ Cardinality(flood_visited) >= 2


(* C16: COORD_PASS differs from the coordinate game_play_move computes for *)
(* every uint8 col and row, and no record written for a stone move has     *)
(* COORD_PASS as its coordinate.                                           *)
C16_SentinelIsNoCoordinate ==
    /\ \A col \in 0 .. 255, row \in 0 .. 255 :
          U16(BOARD_COORD(col, row)) # COORD_PASS
    /\ \A i \in 1 .. move_count : MOVE_COORD(history[i]) # COORD_PASS

(* Two stone moves are on record, the second by Black, each with a board   *)
(* point as its coordinate.                                                *)
C16_Witness ==
    /\ call = "game_play_move" /\ result = MOVE_LEGAL
    /\ move_count = 2 /\ MOVE_COLOR(history[2]) = BLACK
    /\ \A i \in 1 .. move_count : MOVE_COORD(history[i]) \in on_board


(* C17: game_reset(g, width, height, komi2) called in any state stores the *)
(* given width, height and komi2, sets ko to COORD_PASS and move_count to  *)
(* 0, empties black_stones and white_stones, sets on_board for exactly the *)
(* width x height rectangle of BOARD_COORD values, and leaves Black to     *)
(* play.                                                                   *)
C17_ResetYieldsFreshGame ==
    /\ [](\A a \in ResetArgs :
            ResetAssertsHold(a[1], a[2]) =>
              LET g2 == game_reset(game, a[1], a[2], a[3])
              IN  /\ g2.width = a[1] /\ g2.height = a[2] /\ g2.komi2 = a[3]
                  /\ g2.ko = COORD_PASS /\ g2.move_count = 0
                  /\ g2.black_stones = {} /\ g2.white_stones = {}
                  /\ g2.on_board = BoardRectangle(a[1], a[2])
                  /\ game_color_to_play(g2) = BLACK)
    /\ [][call' = "game_reset" =>
            /\ ko' = COORD_PASS /\ move_count' = 0
            /\ black_stones' = {} /\ white_stones' = {}
            /\ on_board' = BoardRectangle(width', height')
            /\ \E a \in ResetArgs :
                  width' = a[1] /\ height' = a[2] /\ komi2' = a[3]]_vars

(* game_reset has run on a game in which White, with stones on the board,  *)
(* was to play.                                                            *)
C17_Witness ==
    /\ call = "game_reset" /\ move_count = 0 /\ AllStones = {}
    /\ Len(history) >= 3 /\ MOVE_COLOR(history[Len(history)]) = BLACK
    /\ komi2 = 0


(* A BG map on which every write of a stone or surface tile shows: all     *)
(* tracked cells hold the blank tile, which game_play_move never writes.   *)
BlankMap == [off \in VramOffsets |-> 0]

(* C18: a game_play_move call that returns NotPlayable, Suicidal or        *)
(* KoViolation issues no vram_set_tile: run on the blank map it leaves     *)
(* every cell blank, and the step leaves the BG map as it was.             *)
C18_RejectedCallDrawsNothing ==
    /\ [](\A in \in PlayCells, color \in Colors :
            LET o == game_play_move(game, BlankMap, in[1], in[2], color,
                                    flood_stack, flood_visited)
            IN  o.result # MOVE_LEGAL => o.vram = BlankMap)
    /\ [][(call' = "game_play_move" /\ result' # MOVE_LEGAL)
            => vram' = vram]_vars

(* A call has been rejected as suicidal on a board where stones have been  *)
(* drawn.                                                                  *)
C18_Witness ==
    /\ call = "game_play_move" /\ result = MOVE_SUICIDAL
    /\ \E off \in DOMAIN vram : vram[off] \in {TILE_STONE_B, TILE_STONE_W}


(* The BG map offset of the cell that shows the board point p.             *)
CellOffset(p) ==
    ((p \div BOARD_MAX_EXTENT) - BOARD_MARGIN) * BkgMapWidth
      + ((p % BOARD_MAX_EXTENT) - BOARD_MARGIN)

(* The tile that shows the occupant of the board point at col, row.        *)
OccupantTile(col, row) ==
    IF BOARD_COORD(col, row) \in black_stones THEN TILE_STONE_B
    ELSE IF BOARD_COORD(col, row) \in white_stones THEN TILE_STONE_W
    ELSE surface_tile(col, row, width, height)

(* C19: a Legal stone move writes through vram_set_tile exactly the cells  *)
(* whose occupancy it changed (run on the blank map, the cells it leaves   *)
(* non-blank are those of the placed and the removed stones), and after    *)
(* board_redraw and any calls of game_play_move the tile of every board    *)
(* cell is that of its occupant: the stone tile of its color, or the       *)
(* surface tile of the cell.                                               *)
C19_TilesFollowOccupancy ==
    /\ \A col \in 0 .. (width - 1), row \in 0 .. (height - 1) :
          vram[row * BkgMapWidth + col] = OccupantTile(col, row)
    /\ \A in \in PlayCells, color \in Colors :
          LET o == game_play_move(game, BlankMap, in[1], in[2], color,
                                  flood_stack, flood_visited)
              changed == { p \in on_board :
                             \/ (p \in black_stones) # (p \in o.g.black_stones)
                             \/ (p \in white_stones) # (p \in o.g.white_stones) }
          IN  o.result = MOVE_LEGAL =>
                { off \in VramOffsets : o.vram[off] # BlankMap[off] }
                  = { CellOffset(p) : p \in changed }

(* A move has just removed two stones and the BG map shows the surface at  *)
(* their points.                                                           *)
C19_Witness ==
    /\ call = "game_play_move" /\ result = MOVE_LEGAL
    /\ Cardinality(AllStones) = move_count - 2
    /\ \A col \in 0 .. (width - 1), row \in 0 .. (height - 1) :
          BOARD_COORD(col, row) \notin AllStones
            => vram[row * BkgMapWidth + col] \notin {TILE_STONE_B, TILE_STONE_W}


(* C20: game_reset with width or height outside [5,19] is rejected before  *)
(* any field of the game state is written: no state has a width or height  *)
(* outside [BOARD_MIN_SIZE, BOARD_MAX_SIZE].                               *)
C20_NoOutOfRangeBoard ==
    /\ width \in BOARD_MIN_SIZE .. BOARD_MAX_SIZE
    /\ height \in BOARD_MIN_SIZE .. BOARD_MAX_SIZE

(* C21: an iteration of main()'s loop makes at most one game_play_move     *)
(* call, and makes one exactly when A is set in the new joypad sample and  *)
(* clear in the previous one; an iteration in which A stays held makes no  *)
(* call, so holding A makes one attempt.                                   *)
C21_OneAttemptPerFreshPress ==
    [][ /\ calls' \in {calls, calls + 1}
        /\ (calls' = calls + 1) <=>
             (J_A \in game_input'.current /\ J_A \notin game_input.current)
      ]_vars

(* A was pressed, the move was attempted, and A is still held a frame on.  *)
C21_Witness ==
    /\ call = "game_play_move"
    /\ calls = 1
    /\ J_A \in game_input.current
    /\ J_A \notin game_input.pressed

(* The first n entries of a scratch queue, as a set.                       *)
QueuePrefix(queue, n) == { queue[i] : i \in 1 .. n }

(* What flood_fill_captured returns for the call fc is right: the first    *)
(* group_size entries of the queue are the maximal group of fc.stones      *)
(* around the seed, each once and the seed first, and the return value is  *)
(* 1 exactly when no member has an empty board point next to it.           *)
FloodIsGroup(fc, ff) ==
    /\ ff.group_size = Cardinality(RuleGroup(fc.stones, {fc.seed}))
    /\ QueuePrefix(ff.queue, ff.group_size) = RuleGroup(fc.stones, {fc.seed})
    /\ ff.queue[1] = fc.seed
    /\ ff.captured <=>
         ~RuleHasLiberty(RuleGroup(fc.stones, {fc.seed}), fc.g.on_board,
                         fc.g.black_stones \cup fc.g.white_stones)

(* C22: every flood_fill_captured call made by game_play_move returns in   *)
(* queue[0..group_size) exactly the maximal 4-connected group of `stones`  *)
(* around the seed, each stone once and the seed first, and returns 1 iff  *)
(* no member has an empty on-board neighbour; it goes through the whole    *)
(* group also when a liberty has been found.                               *)
C22_FloodFindsWholeGroup ==
    \A in \in PlayCells, color \in Colors :
        \A fc \in FloodCalls(game, vram, in[1], in[2], color,
                             flood_stack, flood_visited) :
            FloodIsGroup(fc, flood_fill_captured(fc.g, fc.seed, fc.stones,
                                                 fc.visited, fc.queue))

(* A stone has just joined a group of three that has a liberty at its      *)
(* first stone already; the suicide check's flood left the whole group in  *)
(* the queue.                                                              *)
C22_Witness ==
    /\ call = "game_play_move" /\ result = MOVE_LEGAL
    /\ Cardinality(AllStones) = move_count
    /\ move_count >= 3
    /\ LET t   == MOVE_COORD(history[move_count])
           own == IF MOVE_COLOR(history[move_count]) = BLACK
                  THEN black_stones ELSE white_stones
       IN  /\ Cardinality(RuleGroup(own, {t})) = 3
           /\ RuleHasLiberty({t}, on_board, AllStones)
           /\ QueuePrefix(flood_stack, 3) = RuleGroup(own, {t})

(* C23: every flood_fill_captured call made by game_play_move ends, and    *)
(* the number of queue entries it writes is at most the number of stones   *)
(* of the color it follows, hence at most width * height and at most       *)
(* BOARD_POSITIONS, the size of the scratch queue.                         *)
C23_FloodWithinQueue ==
    \A in \in PlayCells, color \in Colors :
        \A fc \in FloodCalls(game, vram, in[1], in[2], color,
                             flood_stack, flood_visited) :
            \E ff \in { flood_fill_captured(fc.g, fc.seed, fc.stones,
                                            fc.visited, fc.queue) } :
                /\ ff.group_size >= 1
                /\ ff.group_size <= Cardinality(fc.stones)
                /\ Cardinality(fc.stones) <= width * height
                /\ width * height <= BOARD_POSITIONS
                /\ Len(ff.queue) <= BOARD_POSITIONS

(* The last move made a group of all four stones of its color, next to a   *)
(* stone of the other color: the flood wrote as many entries as the color  *)
(* has stones.                                                             *)
C23_Witness ==
    /\ call = "game_play_move" /\ result = MOVE_LEGAL
    /\ move_count = 5 /\ Cardinality(AllStones) = 5
    /\ LET t   == MOVE_COORD(history[move_count])
           own == IF MOVE_COLOR(history[move_count]) = BLACK
                  THEN black_stones ELSE white_stones
       IN  /\ Cardinality(own) = 4
           /\ RuleGroup(own, {t}) = own
           /\ QueuePrefix(flood_stack, 4) = own

(* C24: at every flood_fill_captured call made by game_play_move the seed  *)
(* is not marked in visited: the scan skips a neighbour an earlier         *)
(* direction's flood has marked, and the placed stone is unmarked when the *)
(* suicide check floods from it, visited not being cleared in between.     *)
C24_SeedNeverVisited ==
    \A in \in PlayCells, color \in Colors :
        game_play_move(game, vram, in[1], in[2], color,
                       flood_stack, flood_visited).seeds_ok

(* A stone was placed on the corner next to one opposing group that        *)
(* touches it from two sides; the scan flooded the group once, and the     *)
(* flood from the placed stone followed.                                   *)
C24_Witness ==
    /\ call = "game_play_move" /\ result = MOVE_SUICIDAL
    /\ flood_stack[1] = BOARD_COORD(0, 0)
    /\ \E c \in Colors :
          /\ { BOARD_COORD(1, 0), BOARD_COORD(1, 1), BOARD_COORD(0, 1) }
                \subseteq StonesOf(game, c)
          /\ flood_visited =
                RuleGroup(StonesOf(game, c), {BOARD_COORD(1, 0)})
                \cup {BOARD_COORD(0, 0)}

(* C25: in every state reached from game_reset by game_play_move calls of  *)
(* any colors in any order, every maximal group of stones of one color has *)
(* a liberty: an empty point of the board next to one of its stones.       *)
C25_EveryGroupHasLiberty ==
    /\ \A p \in black_stones :
          RuleHasLiberty(RuleGroup(black_stones, {p}), on_board, AllStones)
    /\ \A p \in white_stones :
          RuleHasLiberty(RuleGroup(white_stones, {p}), on_board, AllStones)

(* A capture has just left the capturing stone, which had no liberty when  *)
(* it was placed, with the captured point as its liberty.                  *)
C25_Witness ==
    /\ call = "game_play_move" /\ result = MOVE_LEGAL
    /\ ko # COORD_PASS
    /\ LET t == MOVE_COORD(history[move_count])
       IN  Adjacent(t) \cap on_board \cap (on_board \ AllStones) = {ko}

(* C26: once a Legal move has set ko to a point X, every call on X returns *)
(* KoViolation until a call returns Legal: after a call that is rejected   *)
(* (NotPlayable, Suicidal or KoViolation, on any point) while ko is X, a   *)
(* call on X is still rejected with KoViolation.                           *)
C26_KoHoldsUntilLegalMove ==
    [][(ko # COORD_PASS /\ call' = "game_play_move" /\ result' # MOVE_LEGAL)
         => \A in \in PlayCells, color \in Colors :
                BOARD_COORD(in[1], in[2]) = ko =>
                    game_play_move(game', vram', in[1], in[2], color,
                                   flood_stack', flood_visited').result = MOVE_KO
      ]_vars

(* The stones as they were before the last recorded move, when that move   *)
(* captured the single stone that stood on ko.                             *)
StonesBeforeLastMove(c) ==
    IF MOVE_COLOR(history[move_count]) = c
    THEN StonesOf(game, c) \ { MOVE_COORD(history[move_count]) }
    ELSE StonesOf(game, c) \cup { ko }

(* The stones of color c once a stone of color by is played on the empty   *)
(* point t and its captures are taken off, by the rules.                   *)
StonesAfterPlay(c, t, by) ==
    IF c = by
    THEN StonesOf(game, c) \cup { t }
    ELSE StonesOf(game, c)
         \ RuleCaptured(t, on_board, StonesOf(game, by), StonesOf(game, c))

(* C27: a call is answered KoViolation only when it is a ko recapture:     *)
(* played with its captures, the stone would bring back the stones exactly *)
(* as they were before the last recorded move; a call on the ko point that *)
(* would capture two or more stones is not answered KoViolation.           *)
C27_KoViolationOnlyForKo ==
    \A in \in SnapbackInputs :
        game_play_move(game, vram, in[1], in[2], in[3],
                       flood_stack, flood_visited).result = MOVE_KO
        => /\ move_count > 0
           /\ \A c \in Colors :
                 StonesAfterPlay(c, BOARD_COORD(in[1], in[2]), in[3])
                    = StonesBeforeLastMove(c)
           /\ Cardinality(RuleCaptured(BOARD_COORD(in[1], in[2]), on_board,
                                       StonesOf(game, in[3]),
                                       StonesOf(game, COLOR_OPPOSITE(in[3])))) < 2

(* White's call on the ko point, which would capture the two black stones  *)
(* whose only liberty it is, has just been answered KoViolation.           *)
C27_SnapbackRejected ==
    /\ call = "game_play_move" /\ result = MOVE_KO
    /\ ko = BOARD_COORD(0, 0)
    /\ black_stones = { BOARD_COORD(1, 0), BOARD_COORD(0, 1), BOARD_COORD(0, 2) }
    /\ white_stones = { BOARD_COORD(1, 1), BOARD_COORD(1, 2), BOARD_COORD(0, 3) }
    /\ RuleCaptured(BOARD_COORD(0, 0), on_board, white_stones, black_stones)
          = { BOARD_COORD(0, 1), BOARD_COORD(0, 2) }

(* C28: in every reachable state move_count is at most HISTORY_MAX and     *)
(* every history write of game_play_move has used an index below           *)
(* HISTORY_MAX, however long the sequence of Legal moves.                  *)
C28_HistoryWithinCapacity ==
    /\ move_count <= HISTORY_MAX
    /\ Len(history) <= HISTORY_MAX

(* C29: a call that returns NotPlayable, Suicidal or KoViolation leaves    *)
(* black_stones, white_stones, on_board, move_count and history as they    *)
(* were: the stone placed for the suicide check is taken off again and no  *)
(* opposing stone is gone.                                                 *)
C29_RejectedCallKeepsStones ==
    [][(call' = "game_play_move" /\ result' # MOVE_LEGAL)
         => UNCHANGED <<black_stones, white_stones, on_board, move_count,
                        history>>]_vars

(* A call was just rejected as Suicidal next to stones of both colors: the *)
(* flood marked the placed stone, and the point is empty again.            *)
C29_Witness ==
    /\ call = "game_play_move" /\ result = MOVE_SUICIDAL
    /\ black_stones # {} /\ white_stones # {}
    /\ flood_stack[1] \in flood_visited
    /\ flood_stack[1] \in on_board \ AllStones
    /\ Len(history) = move_count

(* C30: game_play_move never changes width, height, komi2 or on_board, and *)
(* a Legal stone move of color c takes off no stone of color c and adds no *)
(* stone of the other color.                                               *)
C30_PlayKeepsBoardAndOwnStones ==
    [][call' = "game_play_move" =>
         /\ UNCHANGED <<width, height, komi2, on_board>>
         /\ LegalStoneStep =>
              /\ StonesOf(game, StepColor) \subseteq StonesOf(game', StepColor)
              /\ StonesOf(game', COLOR_OPPOSITE(StepColor))
                    \subseteq StonesOf(game, COLOR_OPPOSITE(StepColor))
      ]_vars

(* A capture by a stone that joined stones of its color: they all stay,    *)
(* and the other color has lost stones and gained none.                    *)
C30_Witness ==
    /\ call = "game_play_move" /\ result = MOVE_LEGAL
    /\ Cardinality(AllStones) < move_count
    /\ LET t   == MOVE_COORD(history[move_count])
           own == StonesOf(game, MOVE_COLOR(history[move_count]))
       IN  /\ Cardinality(RuleGroup(own, {t})) >= 2
           /\ Cardinality(own) >= 3
           /\ StonesOf(game, COLOR_OPPOSITE(MOVE_COLOR(history[move_count]))) = {}

(* C31: in main()'s loop the color passed to game_play_move,               *)
(* move_count & 1, is game_color_to_play(g) in every state: the recorded   *)
(* moves alternate in color from Black on, and a rejected call leaves the  *)
(* same color to move.                                                     *)
C31_LoopColorIsColorToPlay ==
    /\ move_count % 2 = game_color_to_play(game)
    /\ \A i \in 1 .. move_count : MOVE_COLOR(history[i]) = (i - 1) % 2

(* Two moves are recorded, and the last call, White's then Black's third   *)
(* attempt, was rejected: Black is to move still.                          *)
C31_Witness ==
    /\ call = "game_play_move" /\ result # MOVE_LEGAL
    /\ move_count = 2
    /\ calls >= 3
    /\ game_color_to_play(game) = BLACK

(* C32: after cursor_init on the board's centre and any cursor_update      *)
(* calls, whatever the input, the cursor has col < width and row < height: *)
(* the point main() passes to game_play_move is on the board.              *)
C32_CursorOnBoard ==
    /\ game_cursor.col < width
    /\ game_cursor.row < height
    /\ BF_GET(on_board, U16(BOARD_COORD(game_cursor.col, game_cursor.row)))

(* The cursor stands on the last point of the board after a call with     *)
(* right and down pressed.                                                 *)
C32_Witness ==
    /\ call = "cursor_update"
    /\ game_cursor.col = width - 1 /\ game_cursor.row = height - 1
    /\ {J_RIGHT, J_DOWN} \subseteq game_input.pressed
    /\ game_cursor.surface_cache = TILE_CORNER_BR

(* C33: for every point of the board and every reachable state,            *)
(* game_play_move returns Legal only if game_can_play_approx returns true, *)
(* and where game_can_play_approx returns true game_play_move returns      *)
(* Legal or Suicidal, for either color.                                    *)
C33_ApproxBoundsPlay ==
    \A in \in QueryCells, color \in Colors :
        \E o \in { game_play_move(game, vram, in[1], in[2], color,
                                  flood_stack, flood_visited) } :
            /\ o.result = MOVE_LEGAL => game_can_play_approx(game, in[1], in[2]) # 0
            /\ game_can_play_approx(game, in[1], in[2]) # 0
                  => o.result \in {MOVE_LEGAL, MOVE_SUICIDAL}

(* A ko point and a point where White's stone would be a suicide are on    *)
(* the board together: the query is false on the first and true on the     *)
(* second.                                                                 *)
C33_Witness ==
    /\ \E in \in QueryCells :
          /\ game_can_play_approx(game, in[1], in[2]) = 1
          /\ game_play_move(game, vram, in[1], in[2], WHITE,
                            flood_stack, flood_visited).result = MOVE_SUICIDAL
    /\ \E in \in QueryCells :
          /\ game_can_play_approx(game, in[1], in[2]) = 1
          /\ game_play_move(game, vram, in[1], in[2], WHITE,
                            flood_stack, flood_visited).result = MOVE_LEGAL

(* C34: while the same non-empty set of d-pad bits stays held over          *)
(* consecutive polls, `repeated` equals the held d-pad bits on the 20th     *)
(* poll after the d-pad state last changed and on every 6th poll after      *)
(* that, and is empty on every other poll; a change of the d-pad state      *)
(* starts the count again; `repeated` never holds a bit outside DPAD_MASK.  *)
C34_RepeatAfterDelayThenRate ==
    /\ game_input.repeated =
          IF /\ game_input.current \cap DPAD_MASK # {}
             /\ calls >= INPUT_REPEAT_DELAY
             /\ (calls - INPUT_REPEAT_DELAY) % INPUT_REPEAT_RATE = 0
          THEN game_input.current \cap DPAD_MASK
          ELSE {}
    /\ game_input.repeated \subseteq DPAD_MASK

C34_Witness ==
    /\ calls = INPUT_REPEAT_DELAY + INPUT_REPEAT_RATE
    /\ game_input.repeated = {J_LEFT}
    /\ game_input.current = {J_LEFT, J_A}
    /\ game_input.pressed = {J_A}

Dist(a, b) == IF a >= b THEN a - b ELSE b - a

Least(a, b) == IF a <= b THEN a ELSE b

(* C35: with the target fixed, every application of track away from the     *)
(* target moves the position strictly closer to it, by at least             *)
(* CURSOR_MIN_STEP or by the whole remaining distance if that is smaller,   *)
(* and stays on the same side of the target or lands on it; at the target   *)
(* the position no longer changes; and the position reaches the target and  *)
(* stays there.                                                             *)
C35_TrackStepTowardTarget ==
    /\ args'[2] = args[2]
    /\ args[1] = args[2] => args'[1] = args[1]
    /\ args[1] < args[2] => args[1] < args'[1] /\ args'[1] <= args[2]
    /\ args[1] > args[2] => args[1] > args'[1] /\ args'[1] >= args[2]
    /\ Dist(args'[1], args[1]) >= Least(CURSOR_MIN_STEP, Dist(args[1], args[2]))

C35_TrackReachesTarget ==
    /\ [][C35_TrackStepTowardTarget]_vars
    /\ <>[](args[1] = args[2])

C35_Witness ==
    /\ call = "track"
    /\ args[2] = 32768
    /\ args[1] = 32768 + 3

(* C36: for every coordinate in [0, 0x7FFF], COORD_PASS among them, and     *)
(* either color, the move_t that MOVE_MAKE packs decodes with MOVE_COORD    *)
(* to the coordinate and with MOVE_COLOR to the color; and COLOR_OPPOSITE   *)
(* applied to its own result on BLACK or WHITE gives the color back.        *)
C36_MoveRoundTrip ==
    /\ call = "MOVE_MAKE" =>
          /\ result \in 0 .. 65535
          /\ MOVE_COORD(result) = args[1]
          /\ MOVE_COLOR(result) = args[2]
    /\ call = "COLOR_OPPOSITE" =>
          /\ result \in Colors
          /\ COLOR_OPPOSITE(result) = args[2]

C36_Witness ==
    /\ call = "MOVE_MAKE"
    /\ args = <<COORD_PASS, WHITE>>
    /\ result = 65535

(* C37: for every col and row in [0, 19), the row and col that              *)
(* remove_captured decodes from pos = BOARD_COORD(col, row), namely         *)
(* pos / BOARD_MAX_EXTENT - BOARD_MARGIN and pos % BOARD_MAX_EXTENT -       *)
(* BOARD_MARGIN, are row and col.                                           *)
C37_DecodeInvertsBoardCoord ==
    call = "remove_captured" => result = args

C37_Witness ==
    /\ call = "remove_captured"
    /\ args = <<BOARD_MAX_SIZE - 1, 0>>
    /\ result = <<BOARD_MAX_SIZE - 1, 0>>

====
